---- MODULE Spec2Model ----
(***************************************************************************)
(* ZegoTextureRenderer (native/src/internal/zego_texture_renderer.cc):     *)
(* the video-frame bridge between the native engine's producer threads and *)
(* the single-threaded scripting runtime (se::ScriptEngine).               *)
(*                                                                         *)
(* UpdateFrameBuffer takes no lock (line 32 is commented out) and is not   *)
(* marshalled onto the Cocos thread (lines 42 and 66 are commented out),   *)
(* so every statement of it is one step of the calling producer thread and *)
(* the steps of different threads interleave.                              *)
(***************************************************************************)
EXTENDS Integers, Sequences, FiniteSets

\* ---------------------------------------------------------------- bounds
MaxBridges == 2         \* bridges constructed in one run
MaxFrames == 2          \* UpdateFrameBuffer calls started in one run
MaxBinds == 2           \* SetJsController calls in one run
MaxScriptEdits == 1     \* script-side changes of a controller's property
MaxReads == 1           \* accessor passes of the reading thread

Bridges == 1..MaxBridges
Producers == {"p1", "p2"}
Controllers == {"c1", "c2"}

\* se::Value kinds a controller reference can have: the null value or an object.
NullValue == "null"
NoController == "nullptr"          \* js_controller_ default: empty shared_ptr
ControllerValues == Controllers \cup {NullValue}

\* What the property "updateRendererFrameBuffer" of a controller object is.
PropertyKinds == {"absent", "number", "object", "function", "throwing"}

\* ZegoVideoFlipMode
FlipNone == 0
FlipHorizontal == 1

\* The producer's buffers: address -> bytes.
Memory == [a \in {1, 2} |-> IF a = 1 THEN <<69, 70, 71, 72>> ELSE <<65, 66>>]

\* The frames a producer delivers: (data, data_length, param, flip_mode).
Frames ==
    { [data |-> 1, data_length |-> 4, width |-> 640, height |-> 480,
       rotation |-> 90, flip_mode |-> FlipHorizontal],
      [data |-> 2, data_length |-> 2, width |-> 320, height |-> 240,
       rotation |-> 0, flip_mode |-> FlipNone] }

NoFrame == [data |-> 0, data_length |-> 0, width |-> 0, height |-> 0,
            rotation |-> 0, flip_mode |-> FlipNone]

Unset == -1
NoGeometry == [width |-> Unset, height |-> Unset, rotation |-> Unset, flip_mode |-> Unset]
NoMethod == [kind |-> "unset", owner |-> "none"]
NoValue == [type |-> "undefined"]
NoThread == "none"

VARIABLES
    sequence,        \* the process-wide counter behind GetNextSequence()
    status,          \* bridge -> "none" | "live" | "destroyed"
    texture_id_, width_, height_, rotation_, flip_mode_, js_controller_,
    property,        \* controller object -> kind of its updateRendererFrameBuffer
    exception,       \* the script engine's pending-exception state
    inCall,          \* threads inside func->call
    calls,           \* the invocations the script side has observed, in order
    started,         \* UpdateFrameBuffer calls started so far
    binds, edits,    \* SetJsController calls / script-side edits so far
    everBound,       \* bridge -> SetJsController was called on it
    retd,            \* bridge -> the returned call with the latest start, and what its lookup found
    crashed,         \* the thread on which the process has aborted, if any
    freedAccess,     \* a member of a destroyed bridge was read or written
    \* per producer thread: the position in UpdateFrameBuffer and its locals
    pc, this, frame, seq, method, js_texture_id, js_data,
    ops,             \* script-engine entry points the call has used
    written,         \* the values the call has stored into the geometry
    overlapped,      \* another call on the same bridge ran during this call
    issuedUnbound,   \* the call was issued before SetJsController was ever called
    \* the thread calling the accessors
    reads, rpc, rthis, snapshot

bridgeVars == <<status, texture_id_, width_, height_, rotation_, flip_mode_, js_controller_>>
scriptVars == <<property, exception, inCall, calls>>
countVars == <<started, binds, edits, everBound, retd>>
threadVars == <<pc, this, frame, seq, method, js_texture_id, js_data, ops, written,
                   overlapped, issuedUnbound>>
readerVars == <<reads, rpc, rthis, snapshot>>
vars == <<sequence, bridgeVars, scriptVars, countVars, crashed, freedAccess,
          threadVars, readerVars>>

Running == crashed = NoThread

\* ------------------------------------------------------------ accessors
TextureId(b) == texture_id_[b]
Width(b) == width_[b]
Height(b) == height_[b]
Rotation(b) == rotation_[b]
FlipMode(b) == flip_mode_[b]

Geometry(b) ==
    [width |-> Width(b), height |-> Height(b), rotation |-> Rotation(b),
     flip_mode |-> FlipMode(b)]

ParamsOf(f) ==
    [width |-> f.width, height |-> f.height, rotation |-> f.rotation,
     flip_mode |-> f.flip_mode]

\* ------------------------------------------------------------ construction
GetNextSequence == sequence + 1

Init ==
    /\ sequence = 0
    /\ status = [b \in Bridges |-> "none"]
    /\ texture_id_ = [b \in Bridges |-> Unset]
    /\ width_ = [b \in Bridges |-> 0]
    /\ height_ = [b \in Bridges |-> 0]
    /\ rotation_ = [b \in Bridges |-> 0]
    /\ flip_mode_ = [b \in Bridges |-> FlipNone]
    /\ js_controller_ = [b \in Bridges |-> NoController]
    /\ property = [c \in Controllers |-> IF c = "c1" THEN "function" ELSE "absent"]
    /\ exception = FALSE
    /\ inCall = {}
    /\ calls = <<>>
    /\ started = 0
    /\ binds = 0
    /\ edits = 0
    /\ everBound = [b \in Bridges |-> FALSE]
    /\ retd = [b \in Bridges |-> [seq |-> 0, frame |-> NoFrame, lookup |-> "unset"]]
    /\ crashed = NoThread
    /\ freedAccess = FALSE
    /\ pc = [t \in Producers |-> "idle"]
    /\ this = [t \in Producers |-> 0]
    /\ frame = [t \in Producers |-> NoFrame]
    /\ seq = [t \in Producers |-> 0]
    /\ method = [t \in Producers |-> NoMethod]
    /\ js_texture_id = [t \in Producers |-> Unset]
    /\ js_data = [t \in Producers |-> NoValue]
    /\ ops = [t \in Producers |-> {}]
    /\ written = [t \in Producers |-> NoGeometry]
    /\ overlapped = [t \in Producers |-> FALSE]
    /\ issuedUnbound = [t \in Producers |-> FALSE]
    /\ reads = 0
    /\ rpc = "idle"
    /\ rthis = 0
    /\ snapshot = NoGeometry

\* Bridges are numbered in the order of their construction.
NextBridge == Cardinality({b \in Bridges : status[b] # "none"}) + 1

\* Construct with the counter read but not advanced.
ConstructWithoutIncrement ==
    /\ Running
    /\ NextBridge \in Bridges
    /\ sequence' = sequence
    /\ texture_id_' = [texture_id_ EXCEPT ![NextBridge] = sequence]
    /\ status' = [status EXCEPT ![NextBridge] = "live"]
    /\ UNCHANGED <<width_, height_, rotation_, flip_mode_, js_controller_>>
    /\ UNCHANGED <<scriptVars, countVars, crashed, freedAccess, threadVars, readerVars>>

\* Line 13: texture_id_ = GetNextSequence()
Construct ==
    /\ Running
    /\ NextBridge \in Bridges
    /\ sequence' = GetNextSequence
    /\ texture_id_' = [texture_id_ EXCEPT ![NextBridge] = GetNextSequence]
    /\ status' = [status EXCEPT ![NextBridge] = "live"]
    /\ UNCHANGED <<width_, height_, rotation_, flip_mode_, js_controller_>>
    /\ UNCHANGED <<scriptVars, countVars, crashed, freedAccess, threadVars, readerVars>>

\* ------------------------------------------------------------ binding
\* SetJsController that keeps the binding only when the method is callable.
SetJsControllerValidated(b, v) ==
    /\ Running
    /\ status[b] = "live"
    /\ binds < MaxBinds
    /\ js_controller_' = [js_controller_ EXCEPT ![b] =
                            IF v \in Controllers /\ property[v] \in {"function", "throwing"}
                            THEN v ELSE @]
    /\ everBound' = [everBound EXCEPT ![b] = TRUE]
    /\ binds' = binds + 1
    /\ UNCHANGED <<sequence, status, texture_id_, width_, height_, rotation_, flip_mode_>>
    /\ UNCHANGED <<scriptVars, started, edits, retd, crashed, freedAccess, threadVars, readerVars>>

\* SetJsController that also resets the stored geometry.
SetJsControllerResets(b, v) ==
    /\ Running
    /\ status[b] = "live"
    /\ binds < MaxBinds
    /\ js_controller_' = [js_controller_ EXCEPT ![b] = v]
    /\ width_' = [width_ EXCEPT ![b] = 0]
    /\ height_' = [height_ EXCEPT ![b] = 0]
    /\ everBound' = [everBound EXCEPT ![b] = TRUE]
    /\ binds' = binds + 1
    /\ UNCHANGED <<sequence, status, texture_id_, rotation_, flip_mode_>>
    /\ UNCHANGED <<scriptVars, started, edits, retd, crashed, freedAccess, threadVars, readerVars>>

\* Lines 15-17: js_controller_ = std::make_shared<se::Value>(controller).
\* The shared_ptr is non-empty afterwards whatever the se::Value holds.
SetJsController(b, v) ==
    /\ Running
    /\ status[b] = "live"
    /\ binds < MaxBinds
    /\ js_controller_' = [js_controller_ EXCEPT ![b] = v]
    /\ everBound' = [everBound EXCEPT ![b] = TRUE]
    /\ binds' = binds + 1
    /\ UNCHANGED <<sequence, status, texture_id_, width_, height_, rotation_, flip_mode_>>
    /\ UNCHANGED <<scriptVars, started, edits, retd, crashed, freedAccess, threadVars, readerVars>>

\* The script side assigns or deletes the controller's updateRendererFrameBuffer.
JsSetProperty(c, k) ==
    /\ Running
    /\ edits < MaxScriptEdits
    /\ property[c] # k
    /\ property' = [property EXCEPT ![c] = k]
    /\ edits' = edits + 1
    /\ UNCHANGED <<sequence, bridgeVars, exception, inCall, calls, started, binds,
                   everBound, retd, crashed, freedAccess, threadVars, readerVars>>

\* The host tears the stream down: the bridge's members are released.  Nothing
\* in the class waits for, or cancels, a call that is in flight.
Destroy(b) ==
    /\ Running
    /\ status[b] = "live"
    /\ status' = [status EXCEPT ![b] = "destroyed"]
    /\ UNCHANGED <<sequence, texture_id_, width_, height_, rotation_, flip_mode_, js_controller_>>
    /\ UNCHANGED <<scriptVars, countVars, crashed, freedAccess, threadVars, readerVars>>

\* ------------------------------------------------------ UpdateFrameBuffer
InFlight(b) == {u \in Producers : pc[u] # "idle" /\ this[u] = b}

\* A step that reads or writes a member of the bridge: on a destroyed bridge it
\* touches released memory.
Touch(t) == freedAccess' = (freedAccess \/ status[this[t]] = "destroyed")

\* Line 29: a producer thread enters UpdateFrameBuffer(data, data_length, param, flip_mode).
UpdateFrameBuffer(t, b, f) ==
    /\ Running
    /\ pc[t] = "idle"
    /\ status[b] = "live"
    /\ started < MaxFrames
    /\ started' = started + 1
    /\ pc' = [pc EXCEPT ![t] = "L34"]
    /\ this' = [this EXCEPT ![t] = b]
    /\ frame' = [frame EXCEPT ![t] = f]
    /\ seq' = [seq EXCEPT ![t] = started + 1]
    /\ overlapped' = [u \in Producers |->
                        IF u = t THEN InFlight(b) # {}
                        ELSE overlapped[u] \/ u \in InFlight(b)]
    /\ issuedUnbound' = [issuedUnbound EXCEPT ![t] = ~everBound[b]]
    /\ UNCHANGED <<method, js_texture_id, js_data, ops, written>>
    /\ UNCHANGED <<sequence, bridgeVars, scriptVars, binds, edits, everBound, retd,
                   crashed, freedAccess, readerVars>>

\* Line 34: width_ = param.width
StoreWidth(t) ==
    /\ Running
    /\ pc[t] = "L34"
    /\ width_' = [width_ EXCEPT ![this[t]] = frame[t].width]
    /\ written' = [written EXCEPT ![t].width = frame[t].width]
    /\ pc' = [pc EXCEPT ![t] = "L35"]
    /\ Touch(t)
    /\ UNCHANGED <<sequence, status, texture_id_, height_, rotation_, flip_mode_, js_controller_>>
    /\ UNCHANGED <<scriptVars, countVars, crashed, readerVars>>
    /\ UNCHANGED <<this, frame, seq, method, js_texture_id, js_data, ops,
                   overlapped, issuedUnbound>>

\* Line 35: height_ = param.height
StoreHeight(t) ==
    /\ Running
    /\ pc[t] = "L35"
    /\ height_' = [height_ EXCEPT ![this[t]] = frame[t].height]
    /\ written' = [written EXCEPT ![t].height = frame[t].height]
    /\ pc' = [pc EXCEPT ![t] = "L36"]
    /\ Touch(t)
    /\ UNCHANGED <<sequence, status, texture_id_, width_, rotation_, flip_mode_, js_controller_>>
    /\ UNCHANGED <<scriptVars, countVars, crashed, readerVars>>
    /\ UNCHANGED <<this, frame, seq, method, js_texture_id, js_data, ops,
                   overlapped, issuedUnbound>>

\* StoreRotation with the store left out.
StoreRotationSkipped(t) ==
    /\ Running
    /\ pc[t] = "L36"
    /\ pc' = [pc EXCEPT ![t] = "L37"]
    /\ Touch(t)
    /\ UNCHANGED <<sequence, bridgeVars, scriptVars, countVars, crashed, readerVars>>
    /\ UNCHANGED <<this, frame, seq, method, js_texture_id, js_data, ops, written,
                   overlapped, issuedUnbound>>

\* Line 36: rotation_ = param.rotation
StoreRotation(t) ==
    /\ Running
    /\ pc[t] = "L36"
    /\ rotation_' = [rotation_ EXCEPT ![this[t]] = frame[t].rotation]
    /\ written' = [written EXCEPT ![t].rotation = frame[t].rotation]
    /\ pc' = [pc EXCEPT ![t] = "L37"]
    /\ Touch(t)
    /\ UNCHANGED <<sequence, status, texture_id_, width_, height_, flip_mode_, js_controller_>>
    /\ UNCHANGED <<scriptVars, countVars, crashed, readerVars>>
    /\ UNCHANGED <<this, frame, seq, method, js_texture_id, js_data, ops,
                   overlapped, issuedUnbound>>

\* Line 37: flip_mode_ = flip_mode
StoreFlipMode(t) ==
    /\ Running
    /\ pc[t] = "L37"
    /\ flip_mode_' = [flip_mode_ EXCEPT ![this[t]] = frame[t].flip_mode]
    /\ written' = [written EXCEPT ![t].flip_mode = frame[t].flip_mode]
    /\ pc' = [pc EXCEPT ![t] = "L39"]
    /\ Touch(t)
    /\ UNCHANGED <<sequence, status, texture_id_, width_, height_, rotation_, js_controller_>>
    /\ UNCHANGED <<scriptVars, countVars, crashed, readerVars>>
    /\ UNCHANGED <<this, frame, seq, method, js_texture_id, js_data, ops,
                   overlapped, issuedUnbound>>

\* TestController without the test: the script path is entered in every case.
TestControllerIgnored(t) ==
    /\ Running
    /\ pc[t] = "L39"
    /\ pc' = [pc EXCEPT ![t] = "L43"]
    /\ Touch(t)
    /\ UNCHANGED <<sequence, bridgeVars, scriptVars, countVars, crashed, readerVars>>
    /\ UNCHANGED <<this, frame, seq, method, js_texture_id, js_data, ops, written,
                   overlapped, issuedUnbound>>

\* Line 39: if (js_controller_): the shared_ptr is non-empty.
TestController(t) ==
    /\ Running
    /\ pc[t] = "L39"
    /\ pc' = [pc EXCEPT ![t] = IF js_controller_[this[t]] # NoController THEN "L43" ELSE "ret"]
    /\ Touch(t)
    /\ UNCHANGED <<sequence, bridgeVars, scriptVars, countVars, crashed, readerVars>>
    /\ UNCHANGED <<this, frame, seq, method, js_texture_id, js_data, ops, written,
                   overlapped, issuedUnbound>>

\* Line 43: se::ScriptEngine::getInstance()->clearException()
ClearException(t) ==
    /\ Running
    /\ pc[t] = "L43"
    /\ exception' = FALSE
    /\ ops' = [ops EXCEPT ![t] = @ \cup {"clearException"}]
    /\ pc' = [pc EXCEPT ![t] = "L46"]
    /\ UNCHANGED <<sequence, bridgeVars, property, inCall, calls, countVars, crashed,
                   freedAccess, readerVars>>
    /\ UNCHANGED <<this, frame, seq, method, js_texture_id, js_data, written,
                   overlapped, issuedUnbound>>

\* Line 46: js_controller_->toObject()->getProperty("updateRendererFrameBuffer", &method),
\* false when the object has no such property; lines 47-53: return unless the
\* property is an object (isObject) that is a function (isFunction).
Callable == {"function", "throwing"}

\* LookupMethod without the isFunction test of lines 51-53.
LookupMethodUnchecked(t) ==
    /\ Running
    /\ pc[t] = "L46"
    /\ js_controller_[this[t]] \in Controllers
    /\ LET c == js_controller_[this[t]] IN
         /\ method' = [method EXCEPT ![t] = [kind |-> property[c], owner |-> c]]
         /\ pc' = [pc EXCEPT ![t] =
                     IF property[c] \in {"absent", "number"} THEN "ret" ELSE "L56"]
    /\ ops' = [ops EXCEPT ![t] = @ \cup {"getProperty"}]
    /\ Touch(t)
    /\ UNCHANGED <<sequence, bridgeVars, scriptVars, countVars, crashed, readerVars>>
    /\ UNCHANGED <<this, frame, seq, js_texture_id, js_data, written,
                   overlapped, issuedUnbound>>

LookupMethod(t) ==
    /\ Running
    /\ pc[t] = "L46"
    /\ js_controller_[this[t]] \in Controllers
    /\ LET c == js_controller_[this[t]] IN
         /\ method' = [method EXCEPT ![t] = [kind |-> property[c], owner |-> c]]
         /\ pc' = [pc EXCEPT ![t] =
                     IF property[c] = "absent" THEN "ret"        \* line 46: getProperty is false
                     ELSE IF property[c] = "number" THEN "ret"   \* line 48: not an object
                     ELSE IF property[c] \notin Callable THEN "ret"  \* line 52: not a function
                     ELSE "L56"]
    /\ ops' = [ops EXCEPT ![t] = @ \cup {"getProperty"}]
    /\ Touch(t)
    /\ UNCHANGED <<sequence, bridgeVars, scriptVars, countVars, crashed, readerVars>>
    /\ UNCHANGED <<this, frame, seq, js_texture_id, js_data, written,
                   overlapped, issuedUnbound>>

\* nativevalue_to_se on a uint8_t*: the se::Value is made from the pointer alone; the
\* conversion is given neither data_length nor the bytes behind the pointer.
nativevalue_to_se(data) == [type |-> "native_ptr", ptr |-> data]

\* Lines 55-62: nativevalue_to_se(texture_id_, js_texture_id, nullptr);
\* nativevalue_to_se(data, js_data, nullptr); args = {js_texture_id, js_data}
ConvertArgs(t) ==
    /\ Running
    /\ pc[t] = "L56"
    /\ js_texture_id' = [js_texture_id EXCEPT ![t] = TextureId(this[t])]
    /\ js_data' = [js_data EXCEPT ![t] = nativevalue_to_se(frame[t].data)]
    /\ pc' = [pc EXCEPT ![t] = "L64"]
    /\ Touch(t)
    /\ UNCHANGED <<sequence, bridgeVars, scriptVars, countVars, crashed, readerVars>>
    /\ UNCHANGED <<this, frame, seq, method, ops, written,
                   overlapped, issuedUnbound>>

\* Lines 60-64: func->call(args, js_controller_->toObject()), on the calling thread.
\* The script function starts to run: the controller observes the invocation.
Call(t) ==
    /\ Running
    /\ pc[t] = "L64"
    /\ js_controller_[this[t]] \in Controllers
    /\ inCall' = inCall \cup {t}
    /\ calls' = Append(calls, [func |-> method[t].owner,
                               thisObject |-> js_controller_[this[t]],
                               args |-> <<js_texture_id[t], js_data[t]>>,
                               throws |-> method[t].kind = "throwing",
                               bridge |-> this[t], frame |-> frame[t],
                               seq |-> seq[t], thread |-> t])
    /\ ops' = [ops EXCEPT ![t] = @ \cup {"call"}]
    /\ pc' = [pc EXCEPT ![t] = "in_call"]
    /\ Touch(t)
    /\ UNCHANGED <<sequence, bridgeVars, property, exception, countVars, crashed, readerVars>>
    /\ UNCHANGED <<this, frame, seq, method, js_texture_id, js_data, written,
                   overlapped, issuedUnbound>>

\* CallReturn with the script error escaping the call: the process aborts.
CallReturnPropagates(t) ==
    /\ Running
    /\ pc[t] = "in_call"
    /\ inCall' = inCall \ {t}
    /\ exception' = (exception \/ method[t].kind = "throwing")
    /\ pc' = [pc EXCEPT ![t] = IF method[t].kind = "throwing" THEN "in_call" ELSE "ret"]
    /\ crashed' = IF method[t].kind = "throwing" THEN t ELSE crashed
    /\ UNCHANGED <<sequence, bridgeVars, property, calls, countVars, freedAccess, readerVars>>
    /\ UNCHANGED <<this, frame, seq, method, js_texture_id, js_data, ops, written,
                   overlapped, issuedUnbound>>

\* func->call returns: true, or false with the script error left to the engine
\* when the function threw.  The result is discarded (line 64).
CallReturn(t) ==
    /\ Running
    /\ pc[t] = "in_call"
    /\ inCall' = inCall \ {t}
    /\ exception' = (exception \/ method[t].kind = "throwing")
    /\ pc' = [pc EXCEPT ![t] = "ret"]
    /\ UNCHANGED <<sequence, bridgeVars, property, calls, countVars, crashed, freedAccess, readerVars>>
    /\ UNCHANGED <<this, frame, seq, method, js_texture_id, js_data, ops, written,
                   overlapped, issuedUnbound>>

\* Return with the converted buffer value kept after the call.
ReturnKeepingData(t) ==
    /\ Running
    /\ pc[t] = "ret"
    /\ retd' = [retd EXCEPT ![this[t]] =
                  IF seq[t] > @.seq
                  THEN [seq |-> seq[t], frame |-> frame[t], lookup |-> method[t].kind]
                  ELSE @]
    /\ pc' = [pc EXCEPT ![t] = "idle"]
    /\ this' = [this EXCEPT ![t] = 0]
    /\ frame' = [frame EXCEPT ![t] = NoFrame]
    /\ seq' = [seq EXCEPT ![t] = 0]
    /\ method' = [method EXCEPT ![t] = NoMethod]
    /\ js_texture_id' = [js_texture_id EXCEPT ![t] = Unset]
    /\ ops' = [ops EXCEPT ![t] = {}]
    /\ written' = [written EXCEPT ![t] = NoGeometry]
    /\ overlapped' = [overlapped EXCEPT ![t] = FALSE]
    /\ issuedUnbound' = [issuedUnbound EXCEPT ![t] = FALSE]
    /\ UNCHANGED <<sequence, bridgeVars, scriptVars, started, binds, edits, everBound,
                   crashed, freedAccess, readerVars, js_data>>

\* Lines 48, 52, 68: UpdateFrameBuffer returns to the producer.
Return(t) ==
    /\ Running
    /\ pc[t] = "ret"
    /\ retd' = [retd EXCEPT ![this[t]] =
                  IF seq[t] > @.seq
                  THEN [seq |-> seq[t], frame |-> frame[t], lookup |-> method[t].kind]
                  ELSE @]
    /\ pc' = [pc EXCEPT ![t] = "idle"]
    /\ this' = [this EXCEPT ![t] = 0]
    /\ frame' = [frame EXCEPT ![t] = NoFrame]
    /\ seq' = [seq EXCEPT ![t] = 0]
    /\ method' = [method EXCEPT ![t] = NoMethod]
    /\ js_texture_id' = [js_texture_id EXCEPT ![t] = Unset]
    /\ js_data' = [js_data EXCEPT ![t] = NoValue]
    /\ ops' = [ops EXCEPT ![t] = {}]
    /\ written' = [written EXCEPT ![t] = NoGeometry]
    /\ overlapped' = [overlapped EXCEPT ![t] = FALSE]
    /\ issuedUnbound' = [issuedUnbound EXCEPT ![t] = FALSE]
    /\ UNCHANGED <<sequence, bridgeVars, scriptVars, started, binds, edits, everBound,
                   crashed, freedAccess, readerVars>>

\* Lines 46 and 64: toObject() on an se::Value that holds no object.  The engine
\* asserts; without the assertion a null se::Object is dereferenced.
ToObjectOnNonObject(t) ==
    /\ Running
    /\ pc[t] \in {"L46", "L64"}
    /\ js_controller_[this[t]] \notin Controllers
    /\ crashed' = t
    /\ Touch(t)
    /\ UNCHANGED <<sequence, bridgeVars, scriptVars, countVars, threadVars, readerVars>>

\* A step on a destroyed bridge may also fault instead of reading stale memory.
TouchesBridge == {"L34", "L35", "L36", "L37", "L39", "L46", "L56", "L64"}

FaultOnReleased(t) ==
    /\ Running
    /\ pc[t] \in TouchesBridge
    /\ status[this[t]] = "destroyed"
    /\ crashed' = t
    /\ freedAccess' = TRUE
    /\ UNCHANGED <<sequence, bridgeVars, scriptVars, countVars, threadVars, readerVars>>

\* ------------------------------------------------- the accessor thread
\* A thread reads the geometry through the four accessors, one call after another.
ReadGeometry(b) ==
    /\ Running
    /\ rpc = "idle"
    /\ reads < MaxReads
    /\ status[b] = "live"
    /\ reads' = reads + 1
    /\ rpc' = "Width"
    /\ rthis' = b
    /\ snapshot' = NoGeometry
    /\ UNCHANGED <<sequence, bridgeVars, scriptVars, countVars, crashed, freedAccess, threadVars>>

\* Line 21
CallWidth ==
    /\ Running
    /\ rpc = "Width"
    /\ snapshot' = [snapshot EXCEPT !.width = Width(rthis)]
    /\ rpc' = "Height"
    /\ freedAccess' = (freedAccess \/ status[rthis] = "destroyed")
    /\ UNCHANGED <<sequence, bridgeVars, scriptVars, countVars, crashed, threadVars, reads, rthis>>

\* Line 23
CallHeight ==
    /\ Running
    /\ rpc = "Height"
    /\ snapshot' = [snapshot EXCEPT !.height = Height(rthis)]
    /\ rpc' = "Rotation"
    /\ freedAccess' = (freedAccess \/ status[rthis] = "destroyed")
    /\ UNCHANGED <<sequence, bridgeVars, scriptVars, countVars, crashed, threadVars, reads, rthis>>

\* Line 25
CallRotation ==
    /\ Running
    /\ rpc = "Rotation"
    /\ snapshot' = [snapshot EXCEPT !.rotation = Rotation(rthis)]
    /\ rpc' = "FlipMode"
    /\ freedAccess' = (freedAccess \/ status[rthis] = "destroyed")
    /\ UNCHANGED <<sequence, bridgeVars, scriptVars, countVars, crashed, threadVars, reads, rthis>>

\* Line 27
CallFlipMode ==
    /\ Running
    /\ rpc = "FlipMode"
    /\ snapshot' = [snapshot EXCEPT !.flip_mode = FlipMode(rthis)]
    /\ rpc' = "done"
    /\ freedAccess' = (freedAccess \/ status[rthis] = "destroyed")
    /\ UNCHANGED <<sequence, bridgeVars, scriptVars, countVars, crashed, threadVars, reads, rthis>>

\* One step of producer thread t inside UpdateFrameBuffer.
Step(t) ==
    \/ StoreWidth(t) \/ StoreHeight(t) \/ StoreRotation(t) \/ StoreFlipMode(t)
    \/ TestController(t) \/ ClearException(t) \/ LookupMethod(t) \/ ConvertArgs(t)
    \/ Call(t) \/ CallReturn(t) \/ Return(t)
    \/ ToObjectOnNonObject(t)

Reader ==
    \/ \E b \in Bridges : ReadGeometry(b)
    \/ CallWidth \/ CallHeight \/ CallRotation \/ CallFlipMode

\* One producer thread delivers; the host binds, rebinds and destroys and the script
\* side edits the controller at any moment.
Next ==
    \/ Construct
    \/ \E b \in Bridges, v \in ControllerValues : SetJsController(b, v)
    \/ \E c \in Controllers, k \in PropertyKinds : JsSetProperty(c, k)
    \/ \E b \in Bridges : Destroy(b)
    \/ \E b \in Bridges, f \in Frames : UpdateFrameBuffer("p1", b, f)
    \/ Step("p1")
    \/ FaultOnReleased("p1")

Spec == Init /\ [][Next]_vars

\* Two producer threads deliver concurrently.
NextRace ==
    \/ Construct
    \/ \E b \in Bridges, v \in ControllerValues : SetJsController(b, v)
    \/ \E t \in Producers, b \in Bridges, f \in Frames : UpdateFrameBuffer(t, b, f)
    \/ \E t \in Producers : Step(t)

SpecRace == Init /\ [][NextRace]_vars

\* One producer thread delivers while another thread calls the accessors.
NextRead ==
    \/ Construct
    \/ \E b \in Bridges, v \in ControllerValues : SetJsController(b, v)
    \/ \E b \in Bridges, f \in Frames : UpdateFrameBuffer("p1", b, f)
    \/ Step("p1")
    \/ Reader

SpecRead == Init /\ [][NextRead]_vars
\* =================================================================== claims
Constructed == {b \in Bridges : status[b] # "none"}
CallsOf(t) == {i \in DOMAIN calls : calls[i].seq = seq[t]}
InitialGeometry == [width |-> 0, height |-> 0, rotation |-> 0, flip_mode |-> FlipNone]

C1_IdsOrdered ==
    /\ \A b \in Bridges : status[b] = "none" <=> texture_id_[b] = Unset
    /\ \A b \in Constructed : texture_id_[b] # Unset /\ texture_id_[b] <= sequence
    /\ \A i, j \in Constructed : i < j => TextureId(i) < TextureId(j)

C1_IdAssignedOnce == \A b \in Constructed : texture_id_'[b] = texture_id_[b]

C2_AccessorsReturnLastFrame ==
    \A b \in Bridges :
        ( /\ status[b] = "live"
          /\ retd[b].seq > 0
          /\ \A u \in InFlight(b) : seq[u] < retd[b].seq )
        => /\ Width(b) = retd[b].frame.width
           /\ Height(b) = retd[b].frame.height
           /\ Rotation(b) = retd[b].frame.rotation
           /\ FlipMode(b) = retd[b].frame.flip_mode

\* C3: an UpdateFrameBuffer call on a bridge on which SetJsController was never
\* called uses no entry point of the script engine, faults on nothing, stores the
\* frame's four values, and, when no other call overlapped it, returns with the
\* geometry equal to them.
C3_UnboundNoScriptCall ==
    \A t \in Producers :
        (pc[t] # "idle" /\ ~everBound[this[t]] /\ status[this[t]] = "live")
        => /\ ops[t] = {}
           /\ CallsOf(t) = {}
           /\ t \notin inCall
           /\ crashed # t
           /\ pc[t] \in {"L34", "L35", "L36", "L37", "L39", "ret"}
           /\ pc[t] \in {"L39", "ret"} => written[t] = ParamsOf(frame[t])
           /\ (pc[t] = "ret" /\ ~overlapped[t]) => Geometry(this[t]) = ParamsOf(frame[t])

C3_Witness ==
    \E t \in Producers :
        /\ pc[t] = "ret"
        /\ ~everBound[this[t]]
        /\ status[this[t]] = "live"
        /\ Geometry(this[t]) = ParamsOf(frame[t])
        /\ Geometry(this[t]) # InitialGeometry

\* The se::Value that represents exactly the n bytes at address data.
BufferValue(data, n) == [type |-> "bytes", bytes |-> SubSeq(Memory[data], 1, n)]

\* C4: a call that found a callable updateRendererFrameBuffer on the bound
\* controller has invoked it exactly once when it returns, and every invocation
\* carries the bridge's id and a value holding all data_length bytes of the buffer.
C4_OneCallWithIdAndBytes ==
    /\ \A t \in Producers :
          (pc[t] = "ret" /\ method[t].kind \in Callable) => Cardinality(CallsOf(t)) = 1
    /\ \A i \in DOMAIN calls :
          /\ calls[i].args[1] = TextureId(calls[i].bridge)
          /\ calls[i].args[2] = BufferValue(calls[i].frame.data, calls[i].frame.data_length)

\* C5: the controller observes the frames of one bridge in the order in which
\* their UpdateFrameBuffer calls were started.
C5_FramesInOrder ==
    \A i, j \in DOMAIN calls :
        (i < j /\ calls[i].bridge = calls[j].bridge) => calls[i].seq < calls[j].seq

\* The thread that owns the script engine.
CocosThread == "cocos"

\* C6: at most one invocation into the script engine is in progress, and it runs
\* on the engine's owning thread.
C6_SerializedOnCocosThread ==
    /\ Cardinality(inCall) <= 1
    /\ \A t \in inCall : t = CocosThread

\* C7: the four values a thread has read through Width(), Height(), Rotation()
\* and FlipMode() belong to one frame (or are the initial geometry).
C7_NoTornGeometry ==
    rpc = "done" => snapshot \in {ParamsOf(f) : f \in Frames} \cup {InitialGeometry}

\* C8: no step of UpdateFrameBuffer reads or writes a member of a bridge that
\* has been destroyed.
C8_NoUseAfterDestroy == freedAccess = FALSE

NotCallable == {"absent", "number", "object"}

\* C9: a call that found updateRendererFrameBuffer absent, not an object, or an
\* object that is no function returns without fault and without an invocation,
\* having stored the frame's four values; when no other call overlapped it, the
\* geometry equals them.
C9_NotCallableSkipsCall ==
    \A t \in Producers :
        (pc[t] = "ret" /\ method[t].kind \in NotCallable)
        => /\ "call" \notin ops[t]
           /\ CallsOf(t) = {}
           /\ t \notin inCall
           /\ crashed # t
           /\ written[t] = ParamsOf(frame[t])
           /\ (status[this[t]] = "live" /\ ~overlapped[t])
                 => Geometry(this[t]) = ParamsOf(frame[t])

C9_Witness ==
    \E t \in Producers :
        /\ pc[t] = "ret"
        /\ method[t].kind = "object"
        /\ status[this[t]] = "live"
        /\ Geometry(this[t]) = ParamsOf(frame[t])
        /\ calls = <<>>

C10_NoFaultInCall == crashed # NoThread => pc[crashed] # "in_call"

C10_EveryCallDelivers ==
    \A t \in Producers :
        /\ pc[t] \in {"L46", "L56", "L64", "in_call"}
              => "clearException" \in ops[t] /\ written[t] = ParamsOf(frame[t])
        /\ (pc[t] = "ret" /\ method[t].kind \in Callable)
              => /\ Cardinality(CallsOf(t)) = 1
                 /\ written[t] = ParamsOf(frame[t])
                 /\ js_texture_id[t] = TextureId(this[t])

C10_FailureLeavesBridge ==
    \A t \in Producers :
        /\ (pc[t] = "in_call" /\ pc'[t] # "in_call")
              => /\ pc'[t] = "ret"
                 /\ crashed' = crashed
                 /\ UNCHANGED bridgeVars
        /\ (pc[t] = "L43" /\ pc'[t] # "L43")
              => /\ pc'[t] = "L46"
                 /\ exception' = FALSE

C11_OnlyObjectsBound ==
    \A b \in Bridges : js_controller_[b] \in Controllers \cup {NoController}

C13_EarlyFramesDropped ==
    /\ \A t \in inCall : ~issuedUnbound[t]
    /\ \A i, j \in DOMAIN calls : i # j => calls[i].seq # calls[j].seq

\* C14: once UpdateFrameBuffer has returned, the bridge keeps nothing of the
\* frame buffer: the producer's call holds its buffer pointer and the value
\* converted from it only while it runs, and the members of the bridge hold the
\* id, the four geometry values and the controller, never the buffer.
C14_BufferNotRetained ==
    /\ \A t \in Producers :
          /\ pc[t] = "idle" => frame[t] = NoFrame /\ js_data[t] = NoValue
          /\ js_data[t] # NoValue => pc[t] \in {"L64", "in_call", "ret"}
    /\ \A b \in Constructed :
          /\ width_[b] \in {0} \cup {f.width : f \in Frames}
          /\ height_[b] \in {0} \cup {f.height : f \in Frames}
          /\ rotation_[b] \in {0} \cup {f.rotation : f \in Frames}
          /\ flip_mode_[b] \in {FlipNone, FlipHorizontal}
          /\ js_controller_[b] \in ControllerValues \cup {NoController}

C14_Witness ==
    /\ \A t \in Producers : pc[t] = "idle"
    /\ Len(calls) = 1
    /\ calls[1].args[2] = nativevalue_to_se(calls[1].frame.data)
    /\ retd[calls[1].bridge].seq = calls[1].seq

\* C15: when every UpdateFrameBuffer call on a bridge has completed, also after
\* calls that overlapped on two producer threads, the stored geometry is the
\* complete parameter tuple of one delivered frame, never a mixture of fields
\* taken from two frames.
C15_GeometryOfOneFrame ==
    \A b \in Bridges :
        (status[b] = "live" /\ InFlight(b) = {} /\ retd[b].seq > 0)
            => Geometry(b) \in {ParamsOf(f) : f \in Frames}

C16_BoundStaysBound ==
    /\ \A b \in Bridges : everBound[b] => js_controller_[b] # NoController
    /\ \A t \in Producers :
          /\ pc[t] \in {"L56", "L64", "in_call"} => method[t].kind \in Callable
          /\ (pc[t] = "ret" /\ method[t].kind \in NotCallable)
                => /\ CallsOf(t) = {}
                   /\ status[this[t]] = "live" => js_controller_[this[t]] # NoController

C16_LookupEachDelivery ==
    \A t \in Producers :
        (pc[t] = "L46" /\ pc'[t] # "L46")
            => LET c == js_controller_[this[t]] IN
               /\ method'[t] = [kind |-> property[c], owner |-> c]
               /\ pc'[t] = (IF property[c] \in Callable THEN "L56" ELSE "ret")
               /\ UNCHANGED js_controller_

\* C16: SetJsController binds whatever the method's status is, and every
\* delivery looks updateRendererFrameBuffer up anew on the bound controller, so
\* that its outcome is the method's status at that lookup: a frame skipped
\* because the method is not callable leaves the bridge Bound, and a later frame
\* that finds it callable is invoked.
C16_LazyValidation ==
    /\ []C16_BoundStaysBound
    /\ [][C16_LookupEachDelivery]_vars

C16_Witness ==
    \E t \in Producers :
        /\ pc[t] = "ret"
        /\ seq[t] = 2
        /\ binds = 1
        /\ js_controller_[this[t]] = "c2"
        /\ retd[this[t]].seq = 1
        /\ retd[this[t]].lookup = "absent"
        /\ Len(calls) = 1
        /\ CallsOf(t) = {1}
        /\ calls[1].thisObject = "c2"

\* C17: in every UpdateFrameBuffer call of a single producer the four geometry
\* values are stored before the controller is invoked, so that during the
\* invocation for frame F the accessors report F's parameters, and the
\* invocation is over when the call returns.
C17_GeometryBeforeCall ==
    \A t \in Producers :
        /\ t \in inCall
              => /\ pc[t] = "in_call"
                 /\ written[t] = ParamsOf(frame[t])
                 /\ status[this[t]] = "live" => Geometry(this[t]) = ParamsOf(frame[t])
        /\ pc[t] \in {"ret", "idle"} => t \notin inCall

C17_Witness ==
    \E t \in inCall :
        /\ seq[t] = 2
        /\ status[this[t]] = "live"
        /\ Geometry(this[t]) = ParamsOf(frame[t])
        /\ retd[this[t]].seq = 1
        /\ ParamsOf(retd[this[t]].frame) # ParamsOf(frame[t])

C18_Frame ==
    /\ \A b \in Constructed : TextureId(b)' = TextureId(b)
    /\ pc' # pc => UNCHANGED <<texture_id_, js_controller_, sequence>>
    /\ binds' # binds => UNCHANGED <<texture_id_, width_, height_, rotation_, flip_mode_>>
    /\ (rpc' # rpc \/ snapshot' # snapshot) => UNCHANGED <<sequence, bridgeVars, scriptVars>>

\* C18: every operation changes only its own part of the state: the id of a
\* constructed bridge never changes, no step of UpdateFrameBuffer changes the
\* id or the bound controller, SetJsController changes neither the id nor the
\* geometry, and the accessors change nothing of the bridge.
C18_OperationsKeepTheirFrame == [][C18_Frame]_vars

C18_Witness ==
    \E b \in Constructed :
        /\ binds = MaxBinds
        /\ js_controller_[b] \in Controllers
        /\ retd[b].seq > 0
        /\ Geometry(b) = ParamsOf(retd[b].frame)
        /\ Geometry(b) # InitialGeometry
        /\ rthis = b
        /\ rpc = "done"
        /\ TextureId(b) = b
====
